---------------------------- MODULE Spec2Model ----------------------------
(***************************************************************************)
(* Points ledger of the loyalty application: the /api/register handler of  *)
(* server/auth.ts over the users and transactions tables of db/schema.ts,  *)
(* run by concurrent requests against one PostgreSQL database (READ        *)
(* COMMITTED: a transaction's writes are visible to others only after its  *)
(* commit; each statement sees what is committed when it runs).            *)
(*                                                                         *)
(* auth.ts stores the ledger types WELCOME_BONUS and REFERRAL_BONUS and    *)
(* the columns referral_code / referred_by; db/schema.ts declares neither. *)
(* The model follows auth.ts: the rows it writes are storable, and the     *)
(* only constraint on users besides the primary key is UNIQUE(email).      *)
(***************************************************************************)
EXTENDS Integers, Sequences, FiniteSets, TLC

\* ------------------------------------------------------------------ bounds
\* register requests, each from a browser of its own
MaxRequests == 2
\* distinct email addresses in request bodies
NumEmails == 3
\* distinct values randomBytes(8) may produce
NumCodes == 2
\* ledger mutations outside registration
MaxOps == 3
\* concurrent /api/admin/points calls
MaxAdjusts == 2
\* concurrent /api/login requests
MaxLogins == 2
\* activities the customers page lists
NumActivities == 2
\* browsers, each with its own session cookie
MaxSessions == 1
\* users the session routes may end with
MaxAccounts == 2

Requests == 1..MaxRequests
Emails   == 1..NumEmails
Codes    == 1..NumCodes
AdjustCalls == 1..MaxAdjusts
LoginRequests == 1..MaxLogins
Browsers == 1..MaxSessions

\* --------------------------------------------------------- program values
WELCOME_POINTS  == 2000
REFERRAL_POINTS == 2500
\* scryptAsync(password, salt, 64)
KeyLen == 64

\* referralCode: z.string().optional()  --  undefined, "" or a code
Undefined   == -1
EmptyString == 0

\* if (!referralCode)
HasReferralCodeInverted(c) == ~(c # Undefined /\ c # EmptyString)

\* if (referralCode): undefined and "" are falsy
HasReferralCode(c) == c # Undefined /\ c # EmptyString

\* referralCode || null
Null == -1
OrNull(c) == IF c \in {Undefined, EmptyString} THEN Null ELSE c

ErrInvalidInput   == "Invalid input data"
ErrDuplicateEmail == "This email address is already registered. Please try logging in or use a different email address."
ErrInvalidReferral == "Invalid referral code"
ErrLoginFailed    == "Registration successful but login failed"
ErrRegistrationFailed == "Registration failed. Please try again."

\* ------------------------------------------------------------------ state
VARIABLES
    users,          \* committed users table: id -> row
    transactions,   \* committed ledger, in commit order
    userSeq,        \* users_id_seq: last value handed out (never rolled back)
    pc,             \* position of each register request
    body,           \* result.data of the request
    referrerUser,   \* row read by the referrer lookup (id 0: null)
    newReferralCode,\* randomBytes(8).toString('hex')
    txw,            \* uncommitted writes of the request's db.transaction
    newUser,        \* id of the row db.transaction returned (0: none)
    caught,         \* what the catch of the handler that answered last
                    \* received, and the ledger rows its rollback discarded
    resp,           \* the answer sent last
    session,        \* user id req.login serialized for that answer (0: none)
    ops,            \* ledger mutations made outside registration
    opResult,       \* outcome of the last adjustment or redemption
    opType,         \* and the ledger type it asked for
    adminLogs,      \* committed admin_logs table, in commit order
    adj,            \* the /api/admin/points calls: position, arguments,
                    \* balance read, outcome
    notice,         \* what the notifier call made last was given and returned
    login,          \* the /api/login requests: position, credentials, user
                    \* found, answer, user id in the session (0: none)
    isLoading,      \* useUser().isLoading in the browser
    user,           \* useUser().user in the browser
    location,       \* the path wouter matches against
    pointsForm,     \* values of pointsForm on the admin customers page
    pending,        \* assignPointsMutation has a request in flight
    fetched,        \* body of the last POST /api/admin/points
    sessions,       \* the session store: passport.user of each browser's
                    \* session (0: none)
    signedIn,       \* history: the user of each browser's last 200 of login
                    \* or 201 of register that no 200 of logout followed
    answer,         \* the last answer of login, register, logout, /api/user
    expired         \* the session cookie of each browser is past its maxAge

dbVars  == <<users, transactions, userSeq>>
reqVars == <<pc, body, referrerUser, newReferralCode, txw, newUser, caught,
             resp, session>>
adjVars   == <<adminLogs, adj, notice>>
clientVars == <<isLoading, user, location, pointsForm, pending, fetched>>
sessVars == <<sessions, signedIn, answer, expired>>
\* what registration leaves alone
nonRegVars == <<adminLogs, adj, notice, login, clientVars, sessVars>>
vars    == <<users, transactions, userSeq, pc, body, referrerUser,
             newReferralCode, txw, newUser, caught, resp, session, ops,
             opResult, opType, adminLogs, adj, notice, login, isLoading,
             user, location, pointsForm, pending, fetched, sessions,
             signedIn, answer, expired>>
\* what the adjust calls leave alone
nonAdjVars == <<reqVars, ops, opResult, opType, login, clientVars, sessVars>>
\* what the session routes leave alone
nonSessVars == <<reqVars, ops, opResult, opType, adjVars, login, clientVars>>

NoUser  == [id |-> 0, points |-> 0]
NoBody  == [email |-> 0, referralCode |-> Undefined]
NoResp  == [status |-> 0, error |-> ""]
NoRow   == [id |-> 0]
NoError == [error |-> "none", undone |-> 0]
NoWrites == [user |-> NoRow, ledger |-> <<>>, update |-> NoUser]
NoCall  == [pc |-> "idle", admin |-> 0, target |-> 0, delta |-> 0,
            balance |-> 0, result |-> "none"]
NoLogin == [pc |-> "idle", email |-> 0, password |-> 0, user |-> 0,
            status |-> 0, session |-> 0]
\* useUser().user while no user is known
NoIdentity == [id |-> 0, isAdmin |-> FALSE]
\* useForm({ defaultValues })
defaultValues == [points |-> 0, selectedActivities |-> <<>>]
NoFetch == [userId |-> 0, points |-> 0]
NoAnswer == [route |-> "none", sid |-> 0, status |-> 0, body |-> [error |-> ""]]
NoNotice == [fn |-> "none", outcome |-> "none", returned |-> FALSE,
             raised |-> FALSE]

TxStates == {"txInsertUser", "txUpdateReferrer", "txCommit"}

\* ---------------------------------------------------------------- helpers
\* rows of the committed users table matching a WHERE clause
ByEmail(e) == {i \in DOMAIN users : users[i].email = e}
ByReferralCode(c) == {i \in DOMAIN users : users[i].referral_code = c}

\* const [existingUser] = ...; if (existingUser)
EmailTaken(e) == ByEmail(e) # {}

\* users.email without .unique()
UniqueViolationNone(e) == FALSE

\* users.email is UNIQUE: the insert is refused when a committed row has it
UniqueViolation(e) == \E i \in DOMAIN users : users[i].email = e

\* an uncommitted insert of the same email by another transaction makes the
\* insert wait for that transaction to end
EmailPending(r, e) ==
    \E q \in Requests \ {r} :
        pc[q] \in TxStates /\ txw[q].user # NoRow /\ txw[q].user.email = e

\* an uncommitted update of the same users row makes the update wait
RowLocked(r, i) ==
    \E q \in Requests \ {r} : pc[q] \in TxStates /\ txw[q].update.id = i

\* fields a request body may carry beside those registerSchema declares
ExtraFields ==
    [isAdmin : BOOLEAN, isSuperAdmin : BOOLEAN, isEnabled : BOOLEAN]

\* req.body: the declared fields and the others
WithExtra(b, extra) == extra @@ b

\* a users insert that takes the flags the body carries
NewUserRowSpread(i, b, code) ==
    [id |-> i, email |-> b.email,
     isAdmin |-> "isAdmin" \in DOMAIN b /\ b.isAdmin,
     isSuperAdmin |-> "isSuperAdmin" \in DOMAIN b /\ b.isSuperAdmin,
     isEnabled |-> "isEnabled" \in DOMAIN b => b.isEnabled,
     points |-> WELCOME_POINTS, referral_code |-> code,
     referred_by |-> OrNull(b.referralCode)]

\* .values({...}) of the users insert
NewUserRow(i, b, code) ==
    [id |-> i, email |-> b.email, isAdmin |-> FALSE, isSuperAdmin |-> FALSE,
     isEnabled |-> TRUE, points |-> WELCOME_POINTS, referral_code |-> code,
     referred_by |-> OrNull(b.referralCode)]

\* the welcome bonus booked under a type of the declared enum
WelcomeEntryEarned(i) ==
    [userId |-> i, points |-> WELCOME_POINTS, type |-> "EARNED",
     description |-> <<"Welcome bonus for new registration">>,
     rewardId |-> Null]

WelcomeEntry(i) ==
    [userId |-> i, points |-> WELCOME_POINTS, type |-> "WELCOME_BONUS",
     description |-> <<"Welcome bonus for new registration">>,
     rewardId |-> Null]

\* the referral bonus booked to the user inserted last
ReferralEntryOwn(ref, e) ==
    [userId |-> userSeq, points |-> REFERRAL_POINTS, type |-> "REFERRAL_BONUS",
     description |-> <<"Referral bonus for referring ", e>>,
     rewardId |-> Null]

ReferralEntry(ref, e) ==
    [userId |-> ref.id, points |-> REFERRAL_POINTS, type |-> "REFERRAL_BONUS",
     description |-> <<"Referral bonus for referring ", e>>,
     rewardId |-> Null]

\* .set({ points: referrerUser.points + 2500 })
ReferrerPoints(ref) == ref.points + REFERRAL_POINTS

RECURSIVE SumPoints(_)
SumPoints(s) == IF s = <<>> THEN 0 ELSE Head(s).points + SumPoints(Tail(s))

OwnedBy(i) == SelectSeq(transactions, LAMBDA t : t.userId = i)
OfType(s, ty) == SelectSeq(s, LAMBDA t : t.type = ty)

\* sum of the signed deltas of the committed ledger rows of user i
LedgerSum(i) == SumPoints(OwnedBy(i))

\* Addresses and codes are names: those that occur nowhere in the state are
\* interchangeable, so a value new to the system is represented by the least
\* one not in use.
Least(S) == IF S = {} THEN {} ELSE {CHOOSE x \in S : \A y \in S : x <= y}

EmailsInUse ==
    {users[i].email : i \in DOMAIN users} \cup {body[q].email : q \in Requests}

CodesInUse ==
    {users[i].referral_code : i \in DOMAIN users}
        \cup {users[i].referred_by : i \in DOMAIN users}
        \cup {body[q].referralCode : q \in Requests}
        \cup {newReferralCode[q] : q \in Requests}

EmailInputs == (Emails \cap EmailsInUse) \cup Least(Emails \ EmailsInUse)
CodeInputs  == (Codes \cap CodesInUse) \cup Least(Codes \ CodesInUse)

\* const newReferralCode = randomBytes(8).toString('hex')
RandomHex == CodeInputs

\* res.status(...).json(...): the handler returns and its locals are gone.
\* err is what its catch received, sessionUser what req.login serialized.
Respond(r, status, error, err, sessionUser) ==
    /\ resp' = [status |-> status, error |-> error]
    /\ caught' = err
    /\ session' = sessionUser
    /\ pc' = [pc EXCEPT ![r] = "closed"]
    /\ body' = [body EXCEPT ![r] = NoBody]
    /\ referrerUser' = [referrerUser EXCEPT ![r] = NoUser]
    /\ newReferralCode' = [newReferralCode EXCEPT ![r] = 0]
    /\ txw' = [txw EXCEPT ![r] = NoWrites]
    /\ newUser' = [newUser EXCEPT ![r] = 0]

\* ------------------------------------------------------------------- Init
\* a user an earlier registration without referral code has left behind
FirstUser == NewUserRow(1, [email |-> 1, referralCode |-> Undefined], 1)

\* no request, call or notification has happened yet
Quiet ==
    /\ pc = [r \in Requests |-> "idle"]
    /\ body = [r \in Requests |-> NoBody]
    /\ referrerUser = [r \in Requests |-> NoUser]
    /\ newReferralCode = [r \in Requests |-> 0]
    /\ txw = [r \in Requests |-> NoWrites]
    /\ newUser = [r \in Requests |-> 0]
    /\ caught = NoError
    /\ resp = NoResp
    /\ session = 0
    /\ ops = 0
    /\ opResult = "none"
    /\ opType = "none"
    /\ adminLogs = <<>>
    /\ adj = [a \in AdjustCalls |-> NoCall]
    /\ notice = NoNotice
    /\ login = [l \in LoginRequests |-> NoLogin]
    /\ isLoading = TRUE
    /\ user = NoIdentity
    /\ location = "/"
    /\ pointsForm = defaultValues
    /\ pending = FALSE
    /\ fetched = NoFetch
    /\ sessions = [c \in Browsers |-> 0]
    /\ signedIn = [c \in Browsers |-> 0]
    /\ answer = NoAnswer
    /\ expired = [c \in Browsers |-> FALSE]

\* the database is empty, or holds one registered user
Init ==
    /\ \E n \in {0, 1} :
          /\ users = IF n = 0 THEN <<>> ELSE <<FirstUser>>
          /\ transactions = IF n = 0 THEN <<>> ELSE <<WelcomeEntry(1)>>
          /\ userSeq = n
    /\ Quiet

\* ---------------------------------------------------------- /api/register
\* requests are interchangeable: they are numbered in the order they arrive
Arrives(r) == pc[r] = "idle" /\ \A q \in Requests : q < r => pc[q] # "idle"

\* registerSchema.safeParse(req.body) fails
RegisterInvalid(r) ==
    /\ Arrives(r)
    /\ Respond(r, 400, ErrInvalidInput, NoError, 0)
    /\ UNCHANGED <<dbVars, ops, opResult, opType, nonRegVars>>

\* safeParse succeeds; the duplicate-email select is issued
RegisterStart(r) ==
    /\ Arrives(r)
    /\ \E e \in EmailInputs, c \in {Undefined, EmptyString} \cup CodeInputs :
          body' = [body EXCEPT ![r] = [email |-> e, referralCode |-> c]]
    /\ pc' = [pc EXCEPT ![r] = "selectExisting"]
    /\ UNCHANGED <<dbVars, referrerUser, newReferralCode, txw, newUser,
                   caught, resp, session, ops, opResult, opType, nonRegVars>>

\* select from users where email = ... limit 1.  Past `if (referralCode)`
\* the handler reads the code only as (referralCode || null), which is what
\* body keeps of a falsy one.
SelectExisting(r) ==
    /\ pc[r] = "selectExisting"
    /\ IF EmailTaken(body[r].email)
       THEN /\ Respond(r, 400, ErrDuplicateEmail, NoError, 0)
            /\ UNCHANGED <<dbVars, ops, opResult, opType, nonRegVars>>
       ELSE IF HasReferralCode(body[r].referralCode)
       THEN /\ pc' = [pc EXCEPT ![r] = "selectReferrer"]
            /\ UNCHANGED <<dbVars, body, referrerUser, newReferralCode, txw,
                           newUser, caught, resp, session, ops, opResult, opType, nonRegVars>>
       ELSE /\ body' = [body EXCEPT ![r].referralCode = OrNull(@)]
            /\ pc' = [pc EXCEPT ![r] = "txInsertUser"]
            /\ UNCHANGED <<dbVars, referrerUser, newReferralCode, txw, newUser,
                           caught, resp, session, ops, opResult, opType, nonRegVars>>

\* select from users where referral_code = ... limit 1
SelectReferrer(r) ==
    /\ pc[r] = "selectReferrer"
    /\ IF ByReferralCode(body[r].referralCode) = {}
       THEN /\ Respond(r, 400, ErrInvalidReferral, NoError, 0)
            /\ UNCHANGED <<dbVars, ops, opResult, opType, nonRegVars>>
       ELSE /\ \E i \in ByReferralCode(body[r].referralCode) :
                  referrerUser' = [referrerUser EXCEPT ![r] =
                                      [id |-> i, points |-> users[i].points]]
            /\ pc' = [pc EXCEPT ![r] = "txInsertUser"]
            /\ UNCHANGED <<dbVars, body, newReferralCode, txw, newUser, caught,
                           resp, session, ops, opResult, opType, nonRegVars>>

\* the users table after the transaction's writes are applied
CommittedUsers(w) ==
    LET withNew == [i \in DOMAIN users \cup {w.user.id} |->
                       IF i = w.user.id THEN w.user ELSE users[i]]
    IN  IF w.update = NoUser THEN withNew
        ELSE [withNew EXCEPT ![w.update.id].points = w.update.points]

\* the ledger inserts written as an upsert keyed on the owning user
CommittedLedgerUpsert(w) ==
    SelectSeq(transactions,
              LAMBDA t : \A k \in DOMAIN w.ledger : w.ledger[k].userId # t.userId)
        \o w.ledger

\* the ledger after the transaction's inserts are applied: insert adds rows
CommittedLedger(w) == transactions \o w.ledger

\* the statements run outside the transaction and stay when a later one fails
RollbackNothing(r, why) ==
    /\ Respond(r, 500, ErrRegistrationFailed, [error |-> why, undone |-> Len(txw[r].ledger)], 0)
    /\ users' = IF txw[r].user = NoRow THEN users ELSE CommittedUsers(txw[r])
    /\ transactions' = transactions \o txw[r].ledger

\* the transaction callback throws: ROLLBACK, then the handler's catch
Rollback(r, why) ==
    /\ Respond(r, 500, ErrRegistrationFailed, [error |-> why, undone |-> Len(txw[r].ledger)], 0)
    /\ UNCHANGED <<users, transactions>>

\* const newReferralCode = randomBytes(8).toString('hex'), drawn here, where
\* the value is first used; the password is hashed, which touches no shared
\* state; then tx.insert(users).values({...}).returning(), which takes the
\* next id and fails on a committed row with the same email (the fields of
\* the request body that registerSchema does not declare are chosen here,
\* where alone an insert could read them), and the
\* tx.insert(transactions) of the WELCOME_BONUS row, which no other
\* transaction can see or wait for
TxInsertUser(r) ==
    /\ pc[r] = "txInsertUser"
    /\ ~EmailPending(r, body[r].email)
    /\ userSeq' = userSeq + 1
    /\ IF UniqueViolation(body[r].email)
       THEN /\ Rollback(r, "unique_violation")
            /\ UNCHANGED <<ops, opResult, opType, nonRegVars>>
       ELSE /\ \E code \in RandomHex, extra \in ExtraFields :
                 /\ newReferralCode' = [newReferralCode EXCEPT ![r] = code]
                 /\ txw' = [txw EXCEPT
                       ![r].user = NewUserRow(userSeq + 1,
                                              WithExtra(body[r], extra), code),
                       ![r].ledger = Append(@, WelcomeEntry(userSeq + 1))]
            /\ pc' = [pc EXCEPT ![r] =
                         IF referrerUser[r] # NoUser THEN "txUpdateReferrer"
                                                     ELSE "txCommit"]
            /\ UNCHANGED <<users, transactions, newUser, body, referrerUser,
                           caught, resp, session, ops, opResult, opType, nonRegVars>>

\* tx.update(users).set({points: referrerUser.points + 2500}).where(id = ...)
\* and the tx.insert(transactions) of the REFERRAL_BONUS row
TxUpdateReferrer(r) ==
    /\ pc[r] = "txUpdateReferrer"
    /\ ~RowLocked(r, referrerUser[r].id)
    /\ txw' = [txw EXCEPT
          ![r].update = [id |-> referrerUser[r].id,
                         points |-> ReferrerPoints(referrerUser[r])],
          ![r].ledger = Append(@, ReferralEntry(referrerUser[r],
                                                body[r].email))]
    /\ pc' = [pc EXCEPT ![r] = "txCommit"]
    /\ UNCHANGED <<dbVars, newUser, body, referrerUser, newReferralCode,
                   caught, resp, session, ops, opResult, opType, nonRegVars>>

\* the callback returns user: COMMIT makes every write visible at once
TxCommit(r) ==
    /\ pc[r] = "txCommit"
    /\ users' = CommittedUsers(txw[r])
    /\ transactions' = CommittedLedger(txw[r])
    /\ newUser' = [newUser EXCEPT ![r] = txw[r].user.id]
    /\ txw' = [txw EXCEPT ![r] = NoWrites]
    /\ body' = [body EXCEPT ![r] = NoBody]
    /\ referrerUser' = [referrerUser EXCEPT ![r] = NoUser]
    /\ newReferralCode' = [newReferralCode EXCEPT ![r] = 0]
    /\ pc' = [pc EXCEPT ![r] = "reqLogin"]
    /\ UNCHANGED <<userSeq, caught, resp, session, ops, opResult, opType, nonRegVars>>

\* a statement of the transaction, or its commit, fails in the storage layer
TxFail(r) ==
    /\ pc[r] \in TxStates
    /\ Rollback(r, "storage_error")
    /\ UNCHANGED <<userSeq, ops, opResult, opType, nonRegVars>>

\* req.login(newUser, cb): cb without err
ReqLoginOk(r) ==
    /\ pc[r] = "reqLogin"
    /\ Respond(r, 201, "", NoError, newUser[r])
    /\ UNCHANGED <<dbVars, ops, opResult, opType, nonRegVars>>

\* req.login(newUser, cb): cb with err
ReqLoginErr(r) ==
    /\ pc[r] = "reqLogin"
    /\ Respond(r, 500, ErrLoginFailed, NoError, 0)
    /\ UNCHANGED <<dbVars, ops, opResult, opType, nonRegVars>>

Register(r) ==
    \/ RegisterInvalid(r)
    \/ RegisterStart(r)
    \/ SelectExisting(r)
    \/ SelectReferrer(r)
    \/ TxInsertUser(r)
    \/ TxUpdateReferrer(r)
    \/ TxCommit(r)
    \/ TxFail(r)
    \/ ReqLoginOk(r)
    \/ ReqLoginErr(r)

Next == \E r \in Requests : Register(r)

Spec == Init /\ [][Next]_vars

\* ------------------------------------------- adjustments and redemptions
\* The server routes behind /api/admin/points and the redemption are not
\* part of the sources at hand; they follow sections 4.2, 4.4 and 4.5 of the
\* specification.

\* deltas of scenarios D and E
AdjustDeltas == {-1500, 250}

\* the rewards table: one reward on offer, one withdrawn
Rewards == {[id |-> 1, pointsCost |-> 800, available |-> TRUE],
            [id |-> 2, pointsCost |-> 800, available |-> FALSE]}

\* 4.2 (c) as a comparison that ignores the sign of the delta
InsufficientUnsigned(balance, delta) == balance < delta

\* 4.2 without step (c)
InsufficientNever(balance, delta) == FALSE

\* 4.2 (c): the mutation is refused when it would leave less than nothing
Insufficient(balance, delta) == balance + delta < 0

\* 4.2: read the balance, refuse or write it, append the matching entry,
\* as one atomic unit that waits for an uncommitted write of the same row
ApplyDelta(u, delta, type, description, rewardRef) ==
    /\ \A q \in Requests : ~(pc[q] \in TxStates /\ txw[q].update.id = u)
    /\ opType' = type
    /\ IF Insufficient(users[u].points, delta)
       THEN /\ opResult' = "InsufficientBalance"
            /\ UNCHANGED <<dbVars, ops>>
       ELSE /\ ops < MaxOps
            /\ users' = [users EXCEPT ![u].points = @ + delta]
            /\ transactions' = Append(transactions,
                   [userId |-> u, points |-> delta, type |-> type,
                    description |-> description, rewardId |-> rewardRef])
            /\ ops' = ops + 1
            /\ opResult' = "ok"
            /\ UNCHANGED userSeq
    /\ UNCHANGED <<reqVars, nonRegVars>>

\* 4.5: adjust(adminId, targetUserId, delta, description)
AdminAdjust ==
    \E u \in DOMAIN users, d \in AdjustDeltas :
        ApplyDelta(u, d, "ADMIN_ADJUSTMENT", <<"adjustment">>, Null)

\* 4.4 without the availability precondition
RedeemableAlways(w) == TRUE

\* 4.4: the reward exists and is marked available
Redeemable(w) == w.available

\* 4.4 with the cost credited
RedeemDeltaCredit(w) == w.pointsCost

\* 4.4: delta = -cost
RedeemDelta(w) == -w.pointsCost

\* 4.4: redeem(userId, rewardId)
Redeem ==
    \E u \in DOMAIN users, w \in Rewards :
        IF ~Redeemable(w)
        THEN /\ opResult' = "RewardUnavailable"
             /\ opType' = "REDEEMED"
             /\ UNCHANGED <<dbVars, reqVars, ops, nonRegVars>>
        ELSE ApplyDelta(u, RedeemDelta(w), "REDEEMED", <<"redemption">>, w.id)

\* one registration racing with adjustments and redemptions
NextLedger == Register(1) \/ AdminAdjust \/ Redeem

SpecLedger == Init /\ [][NextLedger]_vars

\* ------------------------------------------------------------- notifier
Return(v) == [returned |-> v, raised |-> FALSE]
Throw     == [returned |-> FALSE, raised |-> TRUE]

\* catch (error) { ...; throw error; }
CatchRethrow(x) == x

\* catch (error) { console.error(...); return false; }
CatchReturnFalse(x) == IF x.raised THEN Return(FALSE) ELSE x

\* what apiInstance.sendTransacEmail does
EmailOutcomes == {"resolves", "rejects"}

\* sendEmail: await apiInstance.sendTransacEmail(...); return true;
sendEmail(outcome) ==
    CatchReturnFalse(IF outcome = "rejects" THEN Throw ELSE Return(TRUE))

\* what fetch and response.json() do
SMSOutcomes == {"fetch rejects", "status 500", "json rejects", "status 201"}

\* response.ok
ResponseOk(outcome) == outcome \in {"json rejects", "status 201"}

\* sendSMS: await fetch(...); if (!response.ok) throw ...;
\* await response.json(); return true;
sendSMS(outcome) ==
    CatchReturnFalse(
        IF outcome = "fetch rejects" THEN Throw
        ELSE IF ~ResponseOk(outcome) THEN Throw
        ELSE IF outcome = "json rejects" THEN Throw
        ELSE Return(TRUE))

\* ---------------------------------------------- /api/admin/points calls
\* The route is not part of the sources at hand; its calls follow sections
\* 4.2, 4.5 and 5 of the specification: one atomic unit per call, calls on
\* the same user serialized, the admin log written in the same unit, the
\* notifier called after the commit.

\* two registered customers and an administrator
AdminUser ==
    [id |-> 3, email |-> 3, isAdmin |-> TRUE, isSuperAdmin |-> FALSE,
     isEnabled |-> TRUE, points |-> 0, referral_code |-> Null,
     referred_by |-> Null]

SecondUser == NewUserRow(2, [email |-> 2, referralCode |-> Undefined], 2)

InitAdjust ==
    /\ users = <<FirstUser, SecondUser, AdminUser>>
    /\ transactions = <<WelcomeEntry(1), WelcomeEntry(2)>>
    /\ userSeq = 3
    /\ Quiet

Admins    == {i \in DOMAIN users : users[i].isAdmin}
Customers == {i \in DOMAIN users : ~users[i].isAdmin}

\* calls on the same user that do not serialize
RowHeldNever(a, u) == FALSE

\* 4.2, 5: another call holds the user's row between its read and its commit
RowHeld(a, u) ==
    \E b \in AdjustCalls \ {a} : adj[b].pc = "locked" /\ adj[b].target = u

\* the log row naming the target in both columns
AdminLogRowTargetOnly(admin, u, d) ==
    [adminId |-> u, targetUserId |-> u, actionType |-> "POINT_ADJUSTMENT",
     details |-> <<"adjusted by ", d>>]

\* 4.5: appendAdminLog(adminId, targetUserId, actionType, details)
AdminLogRow(admin, u, d) ==
    [adminId |-> admin, targetUserId |-> u, actionType |-> "POINT_ADJUSTMENT",
     details |-> <<"adjusted by ", d>>]

\* 4.1: append(userId, delta, type, description)
AdjustEntry(u, d) ==
    [userId |-> u, points |-> d, type |-> "ADMIN_ADJUSTMENT",
     description |-> <<"adjustment">>, rewardId |-> Null]

\* calls are interchangeable: they are numbered in the order they arrive
AdjArrives(a) ==
    adj[a].pc = "idle" /\ \A b \in AdjustCalls : b < a => adj[b].pc # "idle"

\* adjust(adminId, targetUserId, delta, description) is called
AdjustRequest(a) ==
    /\ AdjArrives(a)
    /\ \E admin \in Admins, u \in Customers, d \in AdjustDeltas :
          adj' = [adj EXCEPT ![a] = [NoCall EXCEPT !.pc = "begin",
                     !.admin = admin, !.target = u, !.delta = d]]
    /\ UNCHANGED <<dbVars, nonAdjVars, adminLogs, notice>>

\* 4.2 (a)-(c): read the balance under the row's lock and refuse a delta
\* that would leave less than nothing
AdjustRead(a) ==
    /\ adj[a].pc = "begin"
    /\ ~RowHeld(a, adj[a].target)
    /\ IF Insufficient(users[adj[a].target].points, adj[a].delta)
       THEN adj' = [adj EXCEPT ![a].pc = "closed",
                               ![a].result = "InsufficientBalance"]
       ELSE adj' = [adj EXCEPT ![a].pc = "locked",
                               ![a].balance = users[adj[a].target].points]
    /\ UNCHANGED <<dbVars, nonAdjVars, adminLogs, notice>>

\* 4.2 (d)-(e), 4.5: the balance, the ledger entry and the admin-log entry
\* become visible together
AdjustCommit(a) ==
    /\ adj[a].pc = "locked"
    /\ users' = [users EXCEPT ![adj[a].target].points =
                                 adj[a].balance + adj[a].delta]
    /\ transactions' = Append(transactions,
                              AdjustEntry(adj[a].target, adj[a].delta))
    /\ adminLogs' = Append(adminLogs,
                 AdminLogRow(adj[a].admin, adj[a].target, adj[a].delta))
    /\ adj' = [adj EXCEPT ![a].pc = "sendEmail", ![a].result = "ok"]
    /\ UNCHANGED <<userSeq, nonAdjVars, notice>>

\* 4.1, 7: a write of the unit fails; the unit is rolled back
AdjustAbort(a) ==
    /\ adj[a].pc = "locked"
    /\ adj' = [adj EXCEPT ![a].pc = "closed", ![a].result = "StorageError"]
    /\ UNCHANGED <<dbVars, nonAdjVars, adminLogs, notice>>

\* 5: after the commit, the customer is sent an email ...
NotifyEmail(a) ==
    /\ adj[a].pc = "sendEmail"
    /\ \E o \in EmailOutcomes :
          LET x == sendEmail(o) IN
          notice' = [fn |-> "sendEmail", outcome |-> o,
                     returned |-> x.returned, raised |-> x.raised]
    /\ adj' = [adj EXCEPT ![a].pc = "sendSMS"]
    /\ UNCHANGED <<dbVars, nonAdjVars, adminLogs>>

\* ... and an SMS
NotifySMS(a) ==
    /\ adj[a].pc = "sendSMS"
    /\ \E o \in SMSOutcomes :
          LET x == sendSMS(o) IN
          notice' = [fn |-> "sendSMS", outcome |-> o,
                     returned |-> x.returned, raised |-> x.raised]
    /\ adj' = [adj EXCEPT ![a].pc = "closed"]
    /\ UNCHANGED <<dbVars, nonAdjVars, adminLogs>>

Adjust(a) ==
    \/ AdjustRequest(a)
    \/ AdjustRead(a)
    \/ AdjustCommit(a)
    \/ AdjustAbort(a)
    \/ NotifyEmail(a)
    \/ NotifySMS(a)

NextAdjust == \E a \in AdjustCalls : Adjust(a)

SpecAdjust == InitAdjust /\ [][NextAdjust]_vars

\* ------------------------------------------------------------ client pages
\* the paths a browser may be at: those App.tsx routes, and one it does not
Paths == {"/auth", "/admin", "/admin/customers", "/admin/rewards",
          "/dashboard", "/rewards", "/", "/missing"}

AdminPages    == {"AdminDashboard", "AdminCustomers", "AdminRewards"}
CustomerPages == {"CustomerDashboard", "CustomerRewards"}

\* what /api/user answers for user i
Identity(i) == [id |-> i, isAdmin |-> users[i].isAdmin]

\* a rendering: the page shown and where wouter is told to go ("": nowhere)
Show(page)   == [page |-> page, to |-> ""]
Redirect(to) == [page |-> "null", to |-> to]

\* PrivateRoute without its role checks
PrivateRouteAnyRole(Component, admin) ==
    IF isLoading THEN Show("Loader2")
    ELSE IF user = NoIdentity THEN Redirect("/auth")
    ELSE Show(Component)

PrivateRoute(Component, admin) ==
    IF isLoading THEN Show("Loader2")
    ELSE IF user = NoIdentity THEN Redirect("/auth")
    ELSE IF admin /\ ~user.isAdmin THEN Redirect("/dashboard")
    ELSE IF ~admin /\ user.isAdmin THEN Redirect("/admin")
    ELSE Show(Component)

\* a redirect of every signed-in user to the root
HomeToRoot == Redirect("/")

\* <Redirect to={user.isAdmin ? "/admin" : "/dashboard"} />
Home == Redirect(IF user.isAdmin THEN "/admin" ELSE "/dashboard")

\* what Router renders at a path: the first Route of the Switch whose path
\* it is
RouterAt(path) ==
    IF isLoading THEN Show("Loader2")
    ELSE CASE path = "/auth" ->
                 IF user # NoIdentity THEN Home ELSE Show("AuthPage")
           [] path = "/admin" -> PrivateRoute("AdminDashboard", TRUE)
           [] path = "/admin/customers" ->
                 PrivateRoute("AdminCustomers", TRUE)
           [] path = "/admin/rewards" -> PrivateRoute("AdminRewards", TRUE)
           [] path = "/dashboard" ->
                 PrivateRoute("CustomerDashboard", FALSE)
           [] path = "/rewards" -> PrivateRoute("CustomerRewards", FALSE)
           [] path = "/" ->
                 IF user # NoIdentity THEN Home ELSE Redirect("/auth")
           [] OTHER -> Show("NotFound")

\* Router at the location wouter reports
Router == RouterAt(location)

\* AdminCustomers keeps pointsForm and its mutation while it stays mounted
\* and starts from the default values when it is mounted again
Mounted ==
    LET stays == Router.page = "AdminCustomers"
                 /\ Router'.page = "AdminCustomers" IN
    /\ pointsForm' = IF stays THEN pointsForm ELSE defaultValues
    /\ pending' = (stays /\ pending)
    /\ UNCHANGED fetched

\* useUser(): the query for /api/user settles, or login, logout or a
\* refetch replace what it holds
UseUser ==
    /\ \E l \in BOOLEAN, u \in {NoIdentity} \cup {Identity(i) : i \in DOMAIN users} :
          /\ <<l, u>> # <<isLoading, user>>
          /\ isLoading' = l
          /\ user' = u
    /\ UNCHANGED location
    /\ Mounted
    /\ UNCHANGED <<dbVars, reqVars, ops, opResult, opType, adjVars, login,
                 sessVars>>

\* the address bar, a link
Visit ==
    /\ \E p \in Paths \ {location} : location' = p
    /\ UNCHANGED <<isLoading, user>>
    /\ Mounted
    /\ UNCHANGED <<dbVars, reqVars, ops, opResult, opType, adjVars, login,
                 sessVars>>

\* navigate(to) of PrivateRoute, <Redirect to>
Navigate ==
    /\ Router.to # ""
    /\ location' = Router.to
    /\ UNCHANGED <<isLoading, user>>
    /\ Mounted
    /\ UNCHANGED <<dbVars, reqVars, ops, opResult, opType, adjVars, login,
                 sessVars>>

\* -------------------------------------------- points form of AdminCustomers
\* the activities of the products assigned to the customers listed
Activities == 1..NumActivities
\* activity.pointsValue
pointsValue(a) == 20 + 30 * a

\* what the custom points input may hold when it changes (e.target.value)
Digits == <<"0", "1", "2", "3", "4", "5", "6", "7", "8", "9">>
TypedValues == {<<>>, <<"0">>, <<"1", "0">>, <<"-", "4", "0">>,
                <<"2", ".", "5">>}

IsDigit(c) == \E k \in DOMAIN Digits : Digits[k] = c
DigitValue(c) == (CHOOSE k \in DOMAIN Digits : Digits[k] = c) - 1

\* the digits a text begins with
RECURSIVE LeadingDigits(_)
LeadingDigits(s) ==
    IF s = <<>> \/ ~IsDigit(Head(s)) THEN <<>>
    ELSE <<Head(s)>> \o LeadingDigits(Tail(s))

RECURSIVE DecimalValue(_)
DecimalValue(d) ==
    IF d = <<>> THEN 0
    ELSE 10 * DecimalValue(SubSeq(d, 1, Len(d) - 1)) + DigitValue(d[Len(d)])

\* parseInt(text): an optional sign, then the digits up to the first
\* character that is none; NaN when there is no digit
parseInt(s) ==
    LET signed == s # <<>> /\ Head(s) \in {"-", "+"}
        digits == LeadingDigits(IF signed THEN Tail(s) ELSE s)
        value  == DecimalValue(digits) IN
    [nan   |-> digits = <<>>,
     value |-> IF signed /\ Head(s) = "-" THEN - value ELSE value]

\* n || 0
OrZero(n) == IF n.nan \/ n.value = 0 THEN 0 ELSE n.value

\* currentSelected.filter(id => id !== a)
RECURSIVE Without(_, _)
Without(s, a) ==
    IF s = <<>> THEN <<>>
    ELSE IF Head(s) = a THEN Without(Tail(s), a)
    ELSE <<Head(s)>> \o Without(Tail(s), a)

Includes(s, a) == \E k \in DOMAIN s : s[k] = a

\* z.number().min(1, "Points must be greater than 0"): the resolver runs
\* this on handleSubmit, which no handler of the page calls
pointsSchema(form) == form.points >= 1

\* disabled={!pointsForm.watch("points")}
Disabled(form) == form.points = 0

OnPage == Router.page = "AdminCustomers"

\* the checkbox of activity a changes: checked when it was not, and back
ToggleActivity(a) ==
    /\ OnPage
    /\ LET currentSelected == pointsForm.selectedActivities
           currentPoints   == pointsForm.points IN
       pointsForm' =
          IF ~Includes(currentSelected, a)
          THEN [selectedActivities |-> Append(currentSelected, a),
                points |-> currentPoints + pointsValue(a)]
          ELSE [selectedActivities |-> Without(currentSelected, a),
                points |-> currentPoints - pointsValue(a)]
    /\ UNCHANGED <<isLoading, user, location, pending, fetched>>
    /\ UNCHANGED <<dbVars, reqVars, ops, opResult, opType, adjVars, login,
                 sessVars>>

\* the custom points input changes
CustomPoints(text) ==
    /\ OnPage
    /\ LET customPoints == OrZero(parseInt(text)) IN
       pointsForm' = [pointsForm EXCEPT !.points = customPoints]
    /\ UNCHANGED <<isLoading, user, location, pending, fetched>>
    /\ UNCHANGED <<dbVars, reqVars, ops, opResult, opType, adjVars, login,
                 sessVars>>

\* "Assign Selected Points" and "Assign Custom Points" in the dialog of
\* customer c: assignPointsMutation.mutate posts the form's points
AssignPoints(c) ==
    /\ OnPage
    /\ ~Disabled(pointsForm)
    /\ fetched' = [userId |-> c, points |-> pointsForm.points]
    /\ pending' = TRUE
    /\ UNCHANGED <<isLoading, user, location, pointsForm>>
    /\ UNCHANGED <<dbVars, reqVars, ops, opResult, opType, adjVars, login,
                 sessVars>>

\* res.ok: onSuccess resets the form
AssignSuccess ==
    /\ OnPage
    /\ pending
    /\ pending' = FALSE
    /\ pointsForm' = defaultValues
    /\ UNCHANGED <<isLoading, user, location, fetched>>
    /\ UNCHANGED <<dbVars, reqVars, ops, opResult, opType, adjVars, login,
                 sessVars>>

\* !res.ok: onError leaves the form as it is
AssignError ==
    /\ OnPage
    /\ pending
    /\ pending' = FALSE
    /\ UNCHANGED <<isLoading, user, location, pointsForm, fetched>>
    /\ UNCHANGED <<dbVars, reqVars, ops, opResult, opType, adjVars, login,
                 sessVars>>

NextClient ==
    \/ Navigate
    \/ UseUser
    \/ Visit
    \/ \E a \in Activities : ToggleActivity(a)
    \/ \E text \in TypedValues : CustomPoints(text)
    \/ \E c \in Customers : AssignPoints(c)
    \/ AssignSuccess
    \/ AssignError

SpecClient == InitAdjust /\ [][NextClient]_vars

\* -------------------------------------------------------------- /api/login
\* The pieces of a stored password, `${salt}.${hash}` split at '.', are
\* numbers: 0 the empty text, a negative number a text that is no hex, a
\* positive number the hex text of the digest bytes of that number.
NotHex == -1

\* scryptAsync(password, salt, 64)
scrypt(password, salt) == [length |-> KeyLen, bytes |-> 10 * password + salt]

\* hash.toString('hex')
ToHex(buffer) == buffer.bytes

\* Buffer.from(hash, 'hex'): decoding stops at the first character that is
\* no hex digit
FromHex(hash) ==
    IF hash < 0 THEN [length |-> 0, bytes |-> 0]
    ELSE [length |-> KeyLen, bytes |-> hash]

\* crypto.hashPassword with the salt randomBytes delivered
hashPassword(password, salt) == <<salt, ToHex(scrypt(password, salt))>>

\* timingSafeEqual(a, b) throws unless the buffers are equally long
timingSafeEqual(a, b) ==
    IF a.length # b.length THEN Throw ELSE Return(a.bytes = b.bytes)

\* const [salt, hash] = storedHash.split('.')
Piece(storedHash, k) ==
    IF k <= Len(storedHash) THEN storedHash[k] ELSE EmptyString

\* crypto.verifyPassword
verifyPassword(password, storedHash) ==
    LET salt == Piece(storedHash, 1)
        hash == Piece(storedHash, 2) IN
    CatchReturnFalse(
        IF salt = EmptyString \/ hash = EmptyString THEN Return(FALSE)
        ELSE timingSafeEqual(FromHex(hash), scrypt(password, salt)))

\* a users row with the columns login reads
StoredUser(i, storedHash, enabled) ==
    [id |-> i, email |-> i, password |-> storedHash, isAdmin |-> FALSE,
     isSuperAdmin |-> FALSE, isEnabled |-> enabled,
     points |-> WELCOME_POINTS, referral_code |-> i, referred_by |-> Null]

\* passwords a request may carry; EmptyString: none
Passwords == {1, 2}
Salts == {1, 2}

\* what the password column of the second user may hold: the digest of
\* password 2 or of the first user's password, a text without '.', a text
\* beginning with '.', a hash that is no hex
StoredHashes ==
    {hashPassword(2, 2), hashPassword(1, 2), <<2>>,
     <<EmptyString, ToHex(scrypt(2, 2))>>, <<2, NotHex>>}

InitLogin ==
    /\ \E e1, e2 \in BOOLEAN, h \in StoredHashes :
          users = <<StoredUser(1, hashPassword(1, 1), e1),
                    StoredUser(2, h, e2)>>
    /\ transactions = <<WelcomeEntry(1), WelcomeEntry(2)>>
    /\ userSeq = 2
    /\ Quiet

\* the strategy without the isEnabled check
LocalStrategyAnyAccount(email, password) ==
    IF ByEmail(email) = {} THEN 0
    ELSE LET u == users[CHOOSE i \in ByEmail(email) : TRUE] IN
         IF ~verifyPassword(password, u.password).returned THEN 0
         ELSE u.id

\* the verify callback of LocalStrategy: the id of the user handed to done,
\* 0 for done(null, false)
LocalStrategy(email, password) ==
    IF ByEmail(email) = {} THEN 0
    ELSE LET u == users[CHOOSE i \in ByEmail(email) : TRUE] IN
         IF ~u.isEnabled THEN 0
         ELSE IF ~verifyPassword(password, u.password).returned THEN 0
         ELSE u.id

LoginArrives(l) == \A k \in LoginRequests : k < l => login[k].pc # "idle"

\* POST /api/login arrives with its body
LoginRequest(l) ==
    /\ login[l].pc = "idle"
    /\ LoginArrives(l)
    /\ \E e \in Emails \cup {EmptyString}, p \in Passwords \cup {EmptyString} :
          login' = [login EXCEPT ![l] = [NoLogin EXCEPT !.pc = "authenticate",
                                                        !.email = e,
                                                        !.password = p]]
    /\ UNCHANGED <<dbVars, reqVars, ops, opResult, opType, adjVars, clientVars,
                 sessVars>>

\* passport.authenticate("local"): without both credentials the strategy
\* fails before its callback; !user answers 401
Authenticate(l) ==
    /\ login[l].pc = "authenticate"
    /\ LET r == login[l]
           found == IF r.email = EmptyString \/ r.password = EmptyString
                    THEN 0
                    ELSE LocalStrategy(r.email, r.password) IN
       login' = [login EXCEPT ![l] =
                    IF found = 0
                    THEN [NoLogin EXCEPT !.pc = "closed", !.status = 401]
                    ELSE [NoLogin EXCEPT !.pc = "reqLogin", !.user = found]]
    /\ UNCHANGED <<dbVars, reqVars, ops, opResult, opType, adjVars, clientVars,
                 sessVars>>

\* req.login(user, cb) without err: res.json(safeUser)
LoginOk(l) ==
    /\ login[l].pc = "reqLogin"
    /\ login' = [login EXCEPT ![l].pc = "closed",
                              ![l].status = 200,
                              ![l].session = login[l].user]
    /\ UNCHANGED <<dbVars, reqVars, ops, opResult, opType, adjVars, clientVars,
                 sessVars>>

\* req.login(user, cb) with err: 500 "Login failed"
LoginErr(l) ==
    /\ login[l].pc = "reqLogin"
    /\ login' = [login EXCEPT ![l].pc = "closed", ![l].status = 500]
    /\ UNCHANGED <<dbVars, reqVars, ops, opResult, opType, adjVars, clientVars,
                 sessVars>>

Login(l) ==
    \/ LoginRequest(l)
    \/ Authenticate(l)
    \/ LoginOk(l)
    \/ LoginErr(l)

NextLogin == \E l \in LoginRequests : Login(l)

SpecLogin == InitLogin /\ [][NextLogin]_vars

\* ------------------------------------------------- sessions and /api/user
\* Each action is a whole request of one browser; the statements of login
\* and register are interleaved in SpecLogin and Spec.  The users rows carry
\* the password column.

\* const { password: _, ...safeUser } = user
safeUser(row) == [k \in DOMAIN row \ {"password"} |-> row[k]]

\* res.status(201).json(newUser): the row the insert returned
RegisterBody(row) == row

\* passport.deserializeUser: the row with the id the session holds
deserializeUser(id) ==
    IF id \in DOMAIN users THEN users[id] ELSE NoRow

\* req.isAuthenticated(): the browser sent the cookie of a session that
\* holds a user, and deserializeUser found the user
IsAuthenticated(c) ==
    ~expired[c] /\ sessions[c] # 0 /\ deserializeUser(sessions[c]) # NoRow

\* what GET /api/user answers browser c
CurrentUser(c) ==
    IF ~IsAuthenticated(c)
    THEN [route |-> "user", sid |-> c, status |-> 401,
          body |-> [error |-> "Not authenticated"]]
    ELSE [route |-> "user", sid |-> c, status |-> 200,
          body |-> safeUser(deserializeUser(sessions[c]))]

\* req.logout that leaves the session as it is
LoggedOutKept(store, c) == store

\* req.logout: the session holds no user
LoggedOut(store, c) == [store EXCEPT ![c] = 0]

\* req.login(user): serializeUser puts user.id into the session
LoggedIn(store, c, row) == [store EXCEPT ![c] = row.id]

\* one user has registered
InitSession ==
    /\ users = <<StoredUser(1, hashPassword(1, 1), TRUE)>>
    /\ transactions = <<WelcomeEntry(1)>>
    /\ userSeq = 1
    /\ Quiet

\* POST /api/login of browser c, from the body to the answer
SessionLogin(c) ==
    /\ \E e \in Emails, p \in Passwords, err \in BOOLEAN :
          LET found == LocalStrategy(e, p) IN
          IF found = 0
          THEN /\ answer' = [route |-> "login", sid |-> c, status |-> 401,
                             body |-> [error |-> "Invalid email or password"]]
               /\ UNCHANGED <<sessions, signedIn, expired>>
          ELSE IF err
          THEN /\ answer' = [route |-> "login", sid |-> c, status |-> 500,
                             body |-> [error |-> "Login failed"]]
               /\ UNCHANGED <<sessions, signedIn, expired>>
          ELSE /\ sessions' = LoggedIn(sessions, c, users[found])
               /\ expired' = [expired EXCEPT ![c] = FALSE]
               /\ answer' = [route |-> "login", sid |-> c, status |-> 200,
                             body |-> safeUser(users[found])]
               /\ signedIn' = [signedIn EXCEPT ![c] = answer'.body.id]
    /\ UNCHANGED <<dbVars, nonSessVars>>

\* POST /api/register of browser c with a valid body, no referral code and
\* an email no user has, from the body to the answer
SessionRegister(c) ==
    /\ userSeq < MaxAccounts
    /\ \E p \in Passwords, salt \in Salts, err \in BOOLEAN :
          LET row == StoredUser(userSeq + 1, hashPassword(p, salt), TRUE) IN
          /\ users' = Append(users, row)
          /\ transactions' = Append(transactions, WelcomeEntry(row.id))
          /\ userSeq' = userSeq + 1
          /\ IF err
             THEN /\ answer' = [route |-> "register", sid |-> c,
                                status |-> 500,
                                body |-> [error |-> ErrLoginFailed]]
                  /\ UNCHANGED <<sessions, signedIn, expired>>
             ELSE /\ sessions' = LoggedIn(sessions, c, row)
                  /\ expired' = [expired EXCEPT ![c] = FALSE]
                  /\ answer' = [route |-> "register", sid |-> c,
                                status |-> 201, body |-> RegisterBody(row)]
                  /\ signedIn' = [signedIn EXCEPT ![c] = answer'.body.id]
    /\ UNCHANGED nonSessVars

\* POST /api/register of browser c that is refused: an email in use
SessionRegisterRefused(c) ==
    /\ answer' = [route |-> "register", sid |-> c, status |-> 400,
                  body |-> [error |-> ErrDuplicateEmail]]
    /\ UNCHANGED <<sessions, signedIn, expired, dbVars, nonSessVars>>

\* POST /api/logout of browser c
SessionLogout(c) ==
    /\ \E err \in BOOLEAN :
          IF err
          THEN /\ answer' = [route |-> "logout", sid |-> c, status |-> 500,
                             body |-> [error |-> "Logout failed"]]
               /\ UNCHANGED <<sessions, signedIn, expired>>
          ELSE /\ sessions' = LoggedOut(sessions, c)
               \* res.clearCookie("connect.sid")
               /\ expired' = [expired EXCEPT ![c] = FALSE]
               /\ answer' = [route |-> "logout", sid |-> c, status |-> 200,
                             body |-> [message |-> "Logged out successfully"]]
               /\ signedIn' = [signedIn EXCEPT ![c] = 0]
    /\ UNCHANGED <<dbVars, nonSessVars>>

\* GET /api/user of browser c
GetUser(c) ==
    /\ answer' = CurrentUser(c)
    /\ UNCHANGED <<sessions, signedIn, expired, dbVars, nonSessVars>>

\* cookie.maxAge, 24 hours, has passed since the session of browser c got
\* its user: the browser sends the cookie no more
CookieExpires(c) ==
    /\ sessions[c] # 0
    /\ ~expired[c]
    /\ expired' = [expired EXCEPT ![c] = TRUE]
    /\ UNCHANGED <<sessions, signedIn, answer, dbVars, nonSessVars>>

\* POST /api/admin/users/:id/toggle-status: the account is disabled or
\* enabled
ToggleStatus(i) ==
    /\ users' = [users EXCEPT ![i].isEnabled = ~@]
    /\ UNCHANGED <<transactions, userSeq, sessVars, nonSessVars>>

NextSession ==
    \/ \E c \in Browsers : SessionLogin(c)
    \/ \E c \in Browsers : SessionRegister(c)
    \/ \E c \in Browsers : SessionRegisterRefused(c)
    \/ \E c \in Browsers : SessionLogout(c)
    \/ \E c \in Browsers : GetUser(c)
    \/ \E c \in Browsers : CookieExpires(c)
    \/ \E i \in DOMAIN users : ToggleStatus(i)

SpecSession == InitSession /\ [][NextSession]_vars

\* ================================================================ claims
\* ledger rows the step has added
Added == SubSeq(transactions', Len(transactions) + 1, Len(transactions'))

Referrals(i) == Len(OfType(OwnedBy(i), "REFERRAL_BONUS"))
Welcomes(i)  == Len(OfType(OwnedBy(i), "WELCOME_BONUS"))

\* a step of request r that changes its position
Moves(r) == pc'[r] # pc[r]

\* C1: in every committed state every user's stored points equal the signed
\* sum of the points of the ledger rows that user owns.
BalanceEqualsLedgerSum ==
    \A i \in DOMAIN users : users[i].points = LedgerSum(i)

\* C2: no committed referral credit is lost: a referrer's balance holds the
\* welcome bonus and 2500 for every committed REFERRAL_BONUS row it owns,
\* also when the registrations that credit it run concurrently.
NoLostCredit ==
    \A i \in DOMAIN users : users[i].points = 2000 + 2500 * Referrals(i)

\* C3: registration is all-or-nothing.  A step in which the transaction
\* throws leaves users and ledger as they were; rows written but not
\* committed are not in the users table; and the committed tables change
\* only by a commit that makes all writes of one registration appear
\* together: the user row, its WELCOME_BONUS row and, with a referrer, the
\* written referrer balance and the REFERRAL_BONUS row.
RegistrationAtomic ==
    /\ [](\A r \in Requests :
            txw[r].user # NoRow => txw[r].user.id \notin DOMAIN users)
    /\ [][/\ \A r \in Requests :
                (pc[r] \in TxStates /\ pc'[r] = "closed")
                    => users' = users /\ transactions' = transactions
          /\ (users' # users \/ transactions' # transactions) =>
                \E r \in Requests :
                    LET w == txw[r]
                        ref == referrerUser[r] IN
                    /\ pc[r] = "txCommit"
                    /\ DOMAIN users' = DOMAIN users \cup {w.user.id}
                    /\ users'[w.user.id] = w.user
                    /\ transactions' = transactions \o w.ledger
                    /\ w.ledger # <<>>
                    /\ Head(w.ledger).userId = w.user.id
                    /\ Head(w.ledger).type = "WELCOME_BONUS"
                    /\ IF ref = NoUser
                       THEN /\ Len(w.ledger) = 1
                            /\ \A i \in DOMAIN users : users'[i] = users[i]
                       ELSE /\ Len(w.ledger) = 2
                            /\ w.ledger[2].userId = ref.id
                            /\ w.ledger[2].type = "REFERRAL_BONUS"
                            /\ users'[ref.id].points = ref.points + 2500
                            /\ \A i \in DOMAIN users \ {ref.id} :
                                   users'[i] = users[i]
         ]_vars

\* C3 witness: the transaction failed after the user row, the welcome
\* row, the referrer's balance and the referral row were written
FailedAfterBalanceUpdate ==
    /\ resp = [status |-> 500, error |-> ErrRegistrationFailed]
    /\ caught = [error |-> "storage_error", undone |-> 2]

\* C4: every committed state has points >= 0 for every user, and a step that
\* answers InsufficientBalance changes neither a balance nor the ledger.
NonNegativeBalance ==
    /\ [](\A i \in DOMAIN users : users[i].points >= 0)
    /\ [][(opResult' = "InsufficientBalance" /\ opResult' # opResult)
             => users' = users /\ transactions' = transactions]_vars

\* C4 witness: a debit larger than the balance has been refused
DebitRefused ==
    /\ opResult = "InsufficientBalance"
    /\ \E i \in DOMAIN users : users[i].points < 800

ReferralCreditExact ==
    [][\A i \in DOMAIN users' \ DOMAIN users :
          users'[i].referred_by # Null =>
             /\ users'[i].points = 2000
             /\ Len(Added) = 2
             /\ Added[1].userId = i /\ Added[1].type = "WELCOME_BONUS"
             /\ Added[2].type = "REFERRAL_BONUS" /\ Added[2].points = 2500
             /\ Added[2].userId \in DOMAIN users
             /\ users'[Added[2].userId].points
                    = users[Added[2].userId].points + 2500
      ]_vars

\* C7: no two users have the same email; a request whose email a committed
\* user has when the duplicate check or the insert runs is answered with an
\* error and changes neither users nor ledger, and the duplicate check
\* answers 400 with the duplicate-email message.
EmailUnique ==
    /\ [](\A i, j \in DOMAIN users :
            i # j => users[i].email # users[j].email)
    /\ [][\A r \in Requests :
             (/\ pc[r] \in {"selectExisting", "txInsertUser"}
              /\ Moves(r)
              /\ \E i \in DOMAIN users : users[i].email = body[r].email)
             => /\ pc'[r] = "closed"
                /\ resp'.status \in {400, 500}
                /\ pc[r] = "selectExisting" =>
                      resp' = [status |-> 400, error |-> ErrDuplicateEmail]
                /\ users' = users
                /\ transactions' = transactions
         ]_vars

\* C7 witness: a request was refused for its email while that email's user
\* is in the table
DuplicateRefused ==
    /\ resp = [status |-> 400, error |-> ErrDuplicateEmail]
    /\ Cardinality(DOMAIN users) >= 1

\* C8: a registration that fails because its email is already registered,
\* also when the other registration committed while it was running, is
\* answered with the duplicate-email reason.
DuplicateEmailReason ==
    caught.error = "unique_violation" => resp.error = ErrDuplicateEmail

\* C9 as stated: a request that supplies a referral code, the empty string
\* included, enters the transaction only with the code's owner found.
SuppliedCodeHasOwner ==
    [][\A r \in Requests :
          (/\ pc[r] \notin TxStates /\ pc'[r] \in TxStates
           /\ body[r].referralCode # Undefined)
          => referrerUser'[r].id \in DOMAIN users
      ]_vars

\* C9 amended: a request that supplies a non-empty referral code enters the
\* transaction only with a user found that owns that code, and the lookup
\* of a code no user owns answers 400 "Invalid referral code" and changes
\* nothing in the database.
InvalidReferralRejected ==
    /\ [](\A r \in Requests :
            (pc[r] \in TxStates /\ body[r].referralCode \in Codes)
                => /\ referrerUser[r].id \in DOMAIN users
                   /\ users[referrerUser[r].id].referral_code
                          = body[r].referralCode)
    /\ [][\A r \in Requests :
             (/\ pc[r] = "selectReferrer"
              /\ Moves(r)
              /\ \A i \in DOMAIN users :
                     users[i].referral_code # body[r].referralCode)
             => /\ pc'[r] = "closed"
                /\ resp' = [status |-> 400, error |-> "Invalid referral code"]
                /\ UNCHANGED <<users, transactions, userSeq>>
         ]_vars

\* C9 witness: a request with a code nobody owns has been refused
UnknownCodeRefused ==
    resp = [status |-> 400, error |-> "Invalid referral code"]

\* C10: no two users have the same referral code.
ReferralCodesDistinct ==
    \A i, j \in DOMAIN users :
        i # j => users[i].referral_code # users[j].referral_code

\* C11: the ledger is append-only: every step leaves each committed row in
\* place with its owner, delta, type and description, and only adds rows
\* after them.
LedgerAppendOnly ==
    [][/\ Len(transactions') >= Len(transactions)
       /\ SubSeq(transactions', 1, Len(transactions)) = transactions
      ]_vars

\* C11 witness: a registration with a referral has committed its rows
\* behind those of two earlier registrations
LedgerGrown ==
    /\ Len(transactions) >= 4
    /\ transactions[Len(transactions)].type = "REFERRAL_BONUS"
    /\ resp.status = 201

\* calls that committed an adjustment of user u
OkCalls(u) == {a \in AdjustCalls : adj[a].result = "ok" /\ adj[a].target = u}

RECURSIVE SumDeltas(_)
SumDeltas(S) ==
    IF S = {} THEN 0
    ELSE LET a == CHOOSE x \in S : TRUE IN adj[a].delta + SumDeltas(S \ {a})

Adjustments(u) == OfType(OwnedBy(u), "ADMIN_ADJUSTMENT")

\* admin-log rows the step has added
Logged == SubSeq(adminLogs', Len(adminLogs) + 1, Len(adminLogs'))

\* C12: whatever way concurrent adjustments of one user interleave, the
\* user's balance is its initial balance plus the deltas of the calls that
\* succeeded, and the user has one ADMIN_ADJUSTMENT row per such call.
AdjustmentsSerialize ==
    \A u \in Customers :
        /\ users[u].points = WELCOME_POINTS + SumDeltas(OkCalls(u))
        /\ Len(Adjustments(u)) = Cardinality(OkCalls(u))

\* C12 witness: two overlapping calls on one user both succeeded, the one
\* that arrived second committing first
OverlappingAdjustsDone ==
    \E u \in Customers :
        /\ OkCalls(u) = {1, 2}
        /\ adj[1].delta # adj[2].delta
        /\ Adjustments(u)[1].points = adj[2].delta

\* C15: the step that makes an adjustment by d succeed changes the target's
\* balance by exactly d and no other user, appends exactly one ledger row,
\* ADMIN_ADJUSTMENT of d owned by the target, and exactly one admin-log row,
\* POINT_ADJUSTMENT naming the acting admin and the target; and the admin
\* log changes in no other step.
AdjustmentLogged ==
    [][/\ \A a \in AdjustCalls :
            (adj[a].result # "ok" /\ adj'[a].result = "ok") =>
               LET u == adj[a].target
                   d == adj[a].delta IN
               /\ users'[u].points = users[u].points + d
               /\ \A i \in DOMAIN users \ {u} : users'[i] = users[i]
               /\ Len(Added) = 1
               /\ Added[1].userId = u
               /\ Added[1].points = d
               /\ Added[1].type = "ADMIN_ADJUSTMENT"
               /\ SubSeq(transactions', 1, Len(transactions)) = transactions
               /\ Len(Logged) = 1
               /\ Logged[1].adminId = adj[a].admin
               /\ Logged[1].targetUserId = u
               /\ Logged[1].actionType = "POINT_ADJUSTMENT"
               /\ SubSeq(adminLogs', 1, Len(adminLogs)) = adminLogs
       /\ adminLogs' # adminLogs =>
            \E a \in AdjustCalls : adj[a].result # "ok" /\ adj'[a].result = "ok"
      ]_vars

\* C15 witness: a positive and a negative adjustment have both been logged
BothSignsLogged ==
    /\ Len(adminLogs) = 2
    /\ \E a, b \in AdjustCalls :
          /\ adj[a].result = "ok" /\ adj[a].delta > 0
          /\ adj[b].result = "ok" /\ adj[b].delta < 0

\* C16: a call whose delta would leave the target with less than nothing
\* when its balance is read ends with InsufficientBalance, and the step that
\* refuses a call changes no balance, no ledger row and no admin-log row.
RefusedAdjustmentChangesNothing ==
    [][\A a \in AdjustCalls :
          /\ (/\ adj[a].pc = "begin" /\ adj'[a].pc # "begin"
              /\ users[adj[a].target].points + adj[a].delta < 0)
             => adj'[a].result = "InsufficientBalance"
          /\ (adj[a].result = "none" /\ adj'[a].result = "InsufficientBalance")
             => /\ adj'[a].pc = "closed"
                /\ UNCHANGED <<users, transactions, adminLogs>>
      ]_vars

\* C16 witness: a debit of 1500 was refused to a user holding 500
AdjustmentRefused ==
    \E a \in AdjustCalls :
        /\ adj[a].result = "InsufficientBalance"
        /\ adj[a].delta = -1500
        /\ users[adj[a].target].points = 500

\* C17: sendEmail and sendSMS never raise, return true only when the
\* provider accepted the message, are called only for a committed
\* adjustment, and their step leaves balances, ledger, admin log and the
\* call's outcome as they are.
NotifierDecoupled ==
    /\ [](/\ ~notice.raised
          /\ notice.returned => notice.outcome \in {"resolves", "status 201"}
          /\ \A a \in AdjustCalls :
                adj[a].pc \in {"sendEmail", "sendSMS"} => adj[a].result = "ok")
    /\ [][notice' # notice =>
            /\ UNCHANGED <<users, transactions, adminLogs>>
            /\ \A a \in AdjustCalls : adj'[a].result = adj[a].result
         ]_vars

\* C17 witness: the provider refused the SMS of a committed adjustment
NotificationFailed ==
    /\ notice = [fn |-> "sendSMS", outcome |-> "status 500",
                 returned |-> FALSE, raised |-> FALSE]
    /\ \E a \in AdjustCalls : adj[a].pc = "closed" /\ adj[a].result = "ok"

\* the reward a ledger row refers to
RewardOf(t) == CHOOSE w \in Rewards : w.id = t.rewardId

\* C13: a step in which a redemption fails changes no balance and no ledger
\* row, and a REDEEMED row is only ever added for a reward that is available
\* and whose cost the owner's balance covers.
FailedRedemptionChangesNothing ==
    [][/\ (/\ <<opType, opResult>>' # <<opType, opResult>>
           /\ opType' = "REDEEMED"
           /\ opResult' \in {"InsufficientBalance", "RewardUnavailable"})
          => UNCHANGED <<users, transactions>>
       /\ \A k \in DOMAIN Added :
             Added[k].type = "REDEEMED" =>
                /\ RewardOf(Added[k]).available
                /\ users[Added[k].userId].points
                       >= RewardOf(Added[k]).pointsCost
      ]_vars

\* C13 witness: a user holding 500 was refused a reward costing 800
RedemptionRefused ==
    /\ opType = "REDEEMED"
    /\ opResult = "InsufficientBalance"
    /\ \E i \in DOMAIN users : users[i].points = 500

\* C14: the step of a successful redemption lowers one user's balance by
\* the reward's cost, changes no other user, and appends exactly one ledger
\* row: owned by that user, of type REDEEMED, of delta -cost, referring to
\* the reward.
RedemptionDebitsCost ==
    [][(opType' = "REDEEMED" /\ opResult' = "ok" /\ ops' # ops) =>
          /\ Len(Added) = 1
          /\ SubSeq(transactions', 1, Len(transactions)) = transactions
          /\ Added[1].type = "REDEEMED"
          /\ Added[1].rewardId \in {w.id : w \in Rewards}
          /\ Added[1].points = - RewardOf(Added[1]).pointsCost
          /\ Added[1].userId \in DOMAIN users
          /\ users'[Added[1].userId].points
                = users[Added[1].userId].points - RewardOf(Added[1]).pointsCost
          /\ \A i \in DOMAIN users \ {Added[1].userId} : users'[i] = users[i]
      ]_vars

\* C14 witness: a user who held 2000 has redeemed the reward costing 800
RewardRedeemed ==
    /\ opType = "REDEEMED"
    /\ opResult = "ok"
    /\ transactions[Len(transactions)].type = "REDEEMED"
    /\ users[transactions[Len(transactions)].userId].points = 1200

\* C18: an admin page is rendered only while the user query has settled
\* and holds an administrator, a customer page only while it holds a user
\* who is no administrator; so with no user, or a user of the other role,
\* no guarded page is rendered.
PagesGuarded ==
    /\ Router.page \in AdminPages =>
          ~isLoading /\ user # NoIdentity /\ user.isAdmin
    /\ Router.page \in CustomerPages =>
          ~isLoading /\ user # NoIdentity /\ ~user.isAdmin

\* C18 witness: a customer is at an admin path and is sent to /dashboard
\* with nothing rendered
CustomerAtAdminPath ==
    /\ location = "/admin/customers"
    /\ user # NoIdentity /\ ~user.isAdmin
    /\ Router = [page |-> "null", to |-> "/dashboard"]

\* the stored password is what hashPassword made of p
Verifies(p, storedHash) == \E salt \in Salts : storedHash = hashPassword(p, salt)

\* the users whose credentials request l carries
Entitled(l) ==
    {i \in DOMAIN users :
        /\ users[i].email = login[l].email
        /\ users[i].isEnabled
        /\ login[l].password # EmptyString
        /\ Verifies(login[l].password, users[i].password)}

PointsAtLeastOne ==
    fetched # NoFetch => fetched.points >= 1

\* the sum of activity.pointsValue over a list of activity ids
RECURSIVE SelectedSum(_)
SelectedSum(ids) ==
    IF ids = <<>> THEN 0 ELSE pointsValue(Head(ids)) + SelectedSum(Tail(ids))

\* C21 as stated: the total the page displays, pointsForm.watch("points"),
\* is the sum of pointsValue over the activities in selectedActivities.
TotalIsSelectedSum ==
    pointsForm.points = SelectedSum(pointsForm.selectedActivities)

\* C22 as stated: a request that is answered with another status than 201
\* has committed no user row, no ledger row and no referrer credit: it is
\* not past the commit of its transaction when it is answered.
NonCreatedCommitsNothing ==
    [][\A r \in Requests :
          (Moves(r) /\ pc'[r] = "closed" /\ resp'.status # 201)
             => pc[r] # "reqLogin" /\ newUser[r] \notin DOMAIN users
      ]_vars

\* C26: every REFERRAL_BONUS row a step adds is owned by a user that was in
\* the users table before the step and is none of the users the step adds.
ReferralOwnerPreexists ==
    [][\A k \in DOMAIN Added :
          Added[k].type = "REFERRAL_BONUS" =>
             /\ Added[k].userId \in DOMAIN users
             /\ \A i \in DOMAIN users' \ DOMAIN users : Added[k].userId # i
      ]_vars

\* C26 witness: the first user owns a REFERRAL_BONUS row for a registration
\* that came after it
ReferrerCredited ==
    /\ \E k \in DOMAIN transactions :
          /\ transactions[k].type = "REFERRAL_BONUS"
          /\ transactions[k].userId = 1
    /\ \E i \in DOMAIN users : i > 1 /\ users[i].referred_by = 1

\* users registered with the referral code of user b
ReferredBy(b) ==
    {i \in DOMAIN users : users[i].referred_by = users[b].referral_code}

\* C27 as stated: every user owns as many REFERRAL_BONUS rows as there are
\* users whose referred_by is its referral code.
ReferralRowsMatchReferred ==
    \A b \in DOMAIN users : Referrals(b) = Cardinality(ReferredBy(b))

\* C28: every user a step creates has isAdmin and isSuperAdmin false and
\* isEnabled true, whatever flags the request body carried, and no written
\* but uncommitted user row has other flags.
RegisteredAsCustomer ==
    /\ [](\A r \in Requests :
            txw[r].user # NoRow =>
               /\ ~txw[r].user.isAdmin
               /\ ~txw[r].user.isSuperAdmin
               /\ txw[r].user.isEnabled)
    /\ [][\A i \in DOMAIN users' \ DOMAIN users :
             /\ ~users'[i].isAdmin
             /\ ~users'[i].isSuperAdmin
             /\ users'[i].isEnabled
         ]_vars

\* C28 witness: two registrations have been committed, the second just
\* answered, and neither user is an administrator or disabled
TwoCustomersRegistered ==
    /\ resp.status = 201
    /\ session \in DOMAIN users
    /\ Cardinality(DOMAIN users) >= 3
    /\ \A i \in DOMAIN users : ~users[i].isAdmin /\ users[i].isEnabled

\* C23 as stated: GET /api/user answers no session with a user whose
\* isEnabled is false.
DisabledNotAuthenticated ==
    (answer.route = "user" /\ answer.status = 200) => answer.body.isEnabled

\* C24 as stated: GET /api/user answers 401 to a browser without a
\* successful login or registration since its last successful logout, and
\* the user of the last of them to every other browser.
LifecycleByLogout ==
    \A c \in Browsers :
        IF signedIn[c] = 0
        THEN CurrentUser(c).status = 401
        ELSE CurrentUser(c).status = 200
             /\ CurrentUser(c).body.id = signedIn[c]

\* C24 amended: GET /api/user answers 401 to a browser without a
\* successful login or registration since its last successful logout or
\* whose session cookie has passed its maxAge since, and the user of the
\* last successful login or registration to every other browser; and every
\* answer the route sends is that one.
LifecycleByLogoutOrExpiry ==
    /\ [](\A c \in Browsers :
            IF signedIn[c] = 0 \/ expired[c]
            THEN CurrentUser(c).status = 401
            ELSE CurrentUser(c).status = 200
                 /\ CurrentUser(c).body.id = signedIn[c])
    /\ [][(answer' # answer /\ answer'.route = "user")
             => answer' = CurrentUser(answer'.sid)]_vars

\* C24 witness: a browser that was signed in as a user who registered
\* after the first is answered 401 by /api/user once its cookie has expired
ExpiredAndRefused ==
    /\ answer.route = "user" /\ answer.status = 401
    /\ signedIn[answer.sid] > 1
    /\ expired[answer.sid]

\* C25 as stated: no answer of register, login or /api/user has the
\* password column in its body.
NoDigestInBody ==
    "password" \notin DOMAIN answer.body

\* where Router sends the browser from a path ("": it stays)
Target(path) == IF path = "" THEN "" ELSE RouterAt(path).to

\* C29: from every path and with every identity, following the redirects
\* Router issues reaches, after at most two navigations, a path at which
\* it issues none.
RedirectsSettle ==
    Target(Target(Target(location))) = ""

\* C29 witness: a signed-in administrator at /auth is sent to /admin,
\* where the admin dashboard is rendered and no redirect follows
AdminSentHome ==
    /\ location = "/auth"
    /\ ~isLoading /\ user # NoIdentity /\ user.isAdmin
    /\ Router.to = "/admin"
    /\ RouterAt("/admin") = Show("AdminDashboard")

=============================================================================
